---------------------------- MODULE Spec2Model ----------------------------
(***************************************************************************)
(* Model of the Logitech G-Hub profile editor                              *)
(* (src/LGHUB_Profile_Editor_V2.py): the settings store, the loader, the   *)
(* writer and the handlers of GHubEditorApp.                               *)
(*                                                                         *)
(* Conventions                                                             *)
(*  - Python text (names, paths) is a sequence of one-character strings.   *)
(*  - A parsed JSON value is a tagged record [t, v]; a dict is a function  *)
(*    from keys to values (dict equality ignores key order, as in Python). *)
(*  - JSON text is a separate tagged tree [kind, body] whose objects are   *)
(*    ordered member lists, so that dumps and loads are real conversions.  *)
(*  - Python list indexes are 0-based; here positions are 1-based and 0    *)
(*    stands for None.                                                     *)
(*  - Every handler runs to completion (Tk main loop, single thread): one  *)
(*    action per handler, including its save, reload and re-selection.     *)
(***************************************************************************)
EXTENDS Integers, Sequences, FiniteSets, TLC

VARIABLES
    dbs,                     \* path id -> table DATA: sequence of [id, blob]
    db_path,                 \* self.db_path
    icon_cache_folder,       \* self.icon_cache_folder
    docs,                    \* the parsed_data objects of the last load
    profiles,                \* self.profiles
    selected_profile_index,  \* self.selected_profile_index (0 = None)
    name_entry_var,          \* self.name_entry_var
    app_path_var,            \* self.app_path_var
    icon_path_var,           \* self.icon_path_var
    files,                   \* the image files written by browse_icon
    external,                \* <<path id, _id>> of the rows another program
                             \* wrote since the editor's last load
    unclosed,                \* connections opened and not closed with close()
    last,                    \* what the last handler did and showed
    steps                    \* number of handler runs so far

vars == <<dbs, db_path, icon_cache_folder, docs, profiles,
          selected_profile_index, name_entry_var, app_path_var,
          icon_path_var, files, external, unclosed, last, steps>>

---------------------------------------------------------------------------
(* Bounds of the model *)

MaxSteps == 3

---------------------------------------------------------------------------
(* Text *)

EmptyStr == << >>

\* str.lower() on the letters the model uses
LowerChar(c) ==
    CASE c = "A" -> "a"
      [] c = "B" -> "b"
      [] c = "C" -> "c"
      [] c = "E" -> "e"
      [] c = "N" -> "n"
      [] OTHER -> c

RECURSIVE Lower(_)
Lower(s) == IF s = << >> THEN << >> ELSE <<LowerChar(Head(s))>> \o Lower(Tail(s))

\* code points of the characters the model uses
Ord(c) ==
    CASE c = " " -> 32
      [] c = "-" -> 45
      [] c = "." -> 46
      [] c = "/" -> 47
      [] c = "1" -> 49
      [] c = ":" -> 58
      [] c = "?" -> 63
      [] c = "A" -> 65
      [] c = "B" -> 66
      [] c = "C" -> 67
      [] c = "E" -> 69
      [] c = "N" -> 78
      [] c = "_" -> 95
      [] c = "a" -> 97
      [] c = "b" -> 98
      [] c = "c" -> 99
      [] c = "d" -> 100
      [] c = "e" -> 101
      [] c = "h" -> 104
      [] c = "i" -> 105
      [] c = "k" -> 107
      [] c = "m" -> 109
      [] c = "n" -> 110
      [] c = "o" -> 111
      [] c = "p" -> 112
      [] c = "r" -> 114
      [] c = "s" -> 115
      [] c = "t" -> 116
      [] c = "u" -> 117
      [] c = "w" -> 119
      [] c = "x" -> 120
      [] c = "y" -> 121
      [] OTHER -> 0

\* Python's < on str: lexicographic by code point
RECURSIVE StrLess(_, _)
StrLess(a, b) ==
    IF b = << >> THEN FALSE
    ELSE IF a = << >> THEN TRUE
    ELSE IF Ord(Head(a)) # Ord(Head(b)) THEN Ord(Head(a)) < Ord(Head(b))
    ELSE StrLess(Tail(a), Tail(b))

---------------------------------------------------------------------------
(* Parsed JSON values (what json.loads returns) *)

JStr(s) == [t |-> "str", v |-> s]
JNum(n) == [t |-> "num", v |-> n]
JBool(b) == [t |-> "bool", v |-> b]
JList(l) == [t |-> "list", v |-> l]
JObj(m) == [t |-> "obj", v |-> m]
JNone == [t |-> "null", v |-> 0]

IsDict(x) == x.t = "obj"
IsList(x) == x.t = "list"

\* dict.get(key, default)
DictGet(d, key, default) == IF key \in DOMAIN d.v THEN d.v[key] ELSE default

\* d[key] = val
DictSet(d, key, val) == JObj((key :> val) @@ d.v)

\* the keys the model's documents use, in the order the writer emits them
KeyOrder ==
    <<"applicationId", "applicationPath", "applications", "category",
      "isCustom", "name", "posterPath", "profiles", "version">>

\* a writer that leaves the isCustom key out
KeysOfWithoutIsCustom(m) ==
    SelectSeq(KeyOrder, LAMBDA k : k \in DOMAIN m /\ k # "isCustom")

KeysOf(m) == SelectSeq(KeyOrder, LAMBDA k : k \in DOMAIN m)

---------------------------------------------------------------------------
(* JSON text and the BLOB column *)

Garbage == [kind |-> "garbage", body |-> << >>]
NoText == [kind |-> "none", body |-> << >>]

\* json.dumps(entire_json, indent=2): a dict becomes an ordered member list
\* that keeps every key, a list keeps its order
RECURSIVE json_dumps(_), DumpMembers(_, _), DumpItems(_)
json_dumps(x) ==
    CASE x.t = "obj" -> [kind |-> "obj", body |-> DumpMembers(x.v, KeysOf(x.v))]
      [] x.t = "list" -> [kind |-> "list", body |-> DumpItems(x.v)]
      [] OTHER -> [kind |-> x.t, body |-> x.v]

DumpMembers(d, ks) ==
    IF ks = << >> THEN << >>
    ELSE << <<Head(ks), json_dumps(d[Head(ks)])>> >> \o DumpMembers(d, Tail(ks))

DumpItems(l) ==
    IF l = << >> THEN << >>
    ELSE <<json_dumps(Head(l))>> \o DumpItems(Tail(l))

\* json.loads(json_str) on text that is JSON: of repeated keys the last wins
RECURSIVE json_loads(_), LoadMembers(_, _), LoadItems(_)
json_loads(txt) ==
    CASE txt.kind = "obj" -> JObj(LoadMembers(txt.body, Len(txt.body)))
      [] txt.kind = "list" -> JList(LoadItems(txt.body))
      [] OTHER -> [t |-> txt.kind, v |-> txt.body]

LoadMembers(ms, n) ==
    IF n = 0 THEN << >>
    ELSE (ms[n][1] :> json_loads(ms[n][2])) @@ LoadMembers(ms, n - 1)

LoadItems(ts) ==
    IF ts = << >> THEN << >>
    ELSE <<json_loads(Head(ts))>> \o LoadItems(Tail(ts))

\* new_json_str.encode("utf-8")
Utf8(txt) == [enc |-> "utf8", text |-> txt]
EmptyBlob == [enc |-> "empty", text |-> NoText]
BadUtf8Blob == [enc |-> "badutf8", text |-> NoText]
BadJsonBlob == Utf8(Garbage)

\* lines 123-130: the row is read, not skipped
RowParses(row) ==
    /\ row.blob.enc # "empty"
    /\ row.blob.enc = "utf8"
    /\ row.blob.text.kind # "garbage"

---------------------------------------------------------------------------
(* DB helpers *)

NoProf == JNone

\* lines 132-136: the list the loader walks; empty when the applications
\* value is no dict or its applications value no list
AppsListOf(parsed_data) ==
    LET apps_section == DictGet(parsed_data, "applications", JNone)
    IN  IF IsDict(apps_section)
        THEN LET apps_list == DictGet(apps_section, "applications", JList(<< >>))
             IN  IF IsList(apps_list) THEN apps_list.v ELSE << >>
        ELSE << >>

\* the dict of each row that was read, in fetch order
RECURSIVE ParsedDocs(_)
ParsedDocs(rows) ==
    IF rows = << >> THEN << >>
    ELSE IF RowParses(Head(rows))
    THEN <<[db_row_id |-> Head(rows).id,
            entire_json |-> json_loads(Head(rows).blob.text)]>>
         \o ParsedDocs(Tail(rows))
    ELSE ParsedDocs(Tail(rows))

\* lines 136-141: one entry per element of a document's list
RECURSIVE EntriesUpTo(_, _, _)
EntriesUpTo(row_id, d, n) ==
    IF n = 0 THEN << >>
    ELSE Append(EntriesUpTo(row_id, d, n - 1),
                [db_row_id |-> row_id, d |-> d, i |-> n, det |-> NoProf])

EntriesOfDoc(ds, d) ==
    EntriesUpTo(ds[d].db_row_id, d, Len(AppsListOf(ds[d].entire_json)))

RECURSIVE FlattenFrom(_, _)
FlattenFrom(ds, d) ==
    IF d > Len(ds) THEN << >>
    ELSE EntriesOfDoc(ds, d) \o FlattenFrom(ds, d + 1)

\* item["profile"]: the element of the document's list the entry refers to,
\* or the object itself once it is in no list any more
ProfOf(ds, e) ==
    IF e.i = 0 THEN e.det ELSE AppsListOf(ds[e.d].entire_json)[e.i]

\* a key that compares the names as they are written
SortKeyCaseSensitive(ds, e) ==
    DictGet(ProfOf(ds, e), "name", JStr(EmptyStr)).v

\* line 144: p["profile"].get("name", "").lower()
SortKey(ds, e) == Lower(DictGet(ProfOf(ds, e), "name", JStr(EmptyStr)).v)

\* list.sort is stable: an entry goes behind every entry whose key is not
\* greater than its own
InsertSorted(ds, sorted, e) ==
    LET behind == {j \in 1..Len(sorted) :
                      StrLess(SortKey(ds, e), SortKey(ds, sorted[j]))}
        at == IF behind = {} THEN Len(sorted) + 1
              ELSE CHOOSE j \in behind : \A k \in behind : j <= k
    IN  SubSeq(sorted, 1, at - 1) \o <<e>> \o SubSeq(sorted, at, Len(sorted))

RECURSIVE SortPrefix(_, _, _)
SortPrefix(ds, es, n) ==
    IF n = 0 THEN << >>
    ELSE InsertSorted(ds, SortPrefix(ds, es, n - 1), es[n])

SortProfiles(ds, es) == SortPrefix(ds, es, Len(es))

\* line 132 raises AttributeError when a row's JSON is no dict; line 144
\* raises when an element is no dict or its name no str
LoadRaises(rows) ==
    \/ \E n \in DOMAIN rows :
          RowParses(rows[n]) /\ ~IsDict(json_loads(rows[n].blob.text))
    \/ LET ds == ParsedDocs(rows)
       IN  \E d \in DOMAIN ds :
             \E i \in DOMAIN AppsListOf(ds[d].entire_json) :
                LET prof == AppsListOf(ds[d].entire_json)[i]
                IN  \/ ~IsDict(prof)
                    \/ DictGet(prof, "name", JStr(EmptyStr)).t # "str"

\* load_profiles_from_db(db_path); db_ok is whether sqlite answers the query
\* (lines 115-119 raise sqlite3.Error otherwise)
load_profiles_from_db(rows, db_ok) ==
    IF ~db_ok
    THEN [ok |-> FALSE, err |-> "sqlite3.Error", docs |-> << >>,
          profiles |-> << >>]
    ELSE IF LoadRaises(rows)
    THEN [ok |-> FALSE, err |-> "AttributeError", docs |-> << >>,
          profiles |-> << >>]
    ELSE LET ds == ParsedDocs(rows)
         IN  [ok |-> TRUE, err |-> "ok", docs |-> ds,
              profiles |-> SortProfiles(ds, FlattenFrom(ds, 1))]

\* an UPDATE that leaves alone a row whose payload is no JSON text
UpdateUnlessUnreadable(rows, row_id, new_blob) ==
    [n \in DOMAIN rows |->
        IF rows[n].id = row_id /\ RowParses(rows[n])
        THEN [id |-> rows[n].id, blob |-> new_blob]
        ELSE rows[n]]

\* a write that inserts the row when no row has the id
UpdateOrInsertRow(rows, row_id, new_blob) ==
    IF \E n \in DOMAIN rows : rows[n].id = row_id
    THEN [n \in DOMAIN rows |->
             IF rows[n].id = row_id THEN [id |-> row_id, blob |-> new_blob]
             ELSE rows[n]]
    ELSE Append(rows, [id |-> row_id, blob |-> new_blob])

\* an UPDATE without its WHERE clause
UpdateEveryRow(rows, row_id, new_blob) ==
    [n \in DOMAIN rows |-> [id |-> rows[n].id, blob |-> new_blob]]

\* line 162: UPDATE DATA SET FILE = ? WHERE _id = ?
RECURSIVE UpdateRows(_, _, _)
UpdateRows(rows, row_id, new_blob) ==
    IF rows = << >> THEN << >>
    ELSE <<IF Head(rows).id = row_id
           THEN [id |-> Head(rows).id, blob |-> new_blob]
           ELSE Head(rows)>> \o UpdateRows(Tail(rows), row_id, new_blob)

\* a writer whose failed UPDATE has written the row all the same
save_profile_partial_write(rows, row_id, entire_json, outcome) ==
    IF outcome = "serialize_error" THEN rows
    ELSE UpdateRows(rows, row_id, Utf8(json_dumps(entire_json)))

\* save_profile_to_db(db_path, row_id, entire_json); outcome is "ok",
\* "serialize_error" (lines 155-157) or "storage_error" (lines 167-168)
save_profile_to_db(rows, row_id, entire_json, outcome) ==
    IF outcome = "ok"
    THEN UpdateRows(rows, row_id, Utf8(json_dumps(entire_json)))
    ELSE rows

---------------------------------------------------------------------------
(* Paths and names (browse_icon, __init__) *)

IsSpace(c) == c = " "

IsWordChar(c) ==
    \/ Ord(c) \in 48..57
    \/ Ord(c) \in 65..90
    \/ Ord(c) \in 97..122
    \/ c = "_"

RECURSIVE LStrip(_)
LStrip(s) == IF s # << >> /\ IsSpace(Head(s)) THEN LStrip(Tail(s)) ELSE s

RECURSIVE RStrip(_)
RStrip(s) ==
    IF s # << >> /\ IsSpace(s[Len(s)]) THEN RStrip(SubSeq(s, 1, Len(s) - 1))
    ELSE s

\* str.strip()
Strip(s) == RStrip(LStrip(s))

\* s or default
OrElse(s, default) == IF s = << >> THEN default ELSE s

\* the position of the last occurrence of c in s, 0 when there is none
\* (str.rfind, shifted by one)
RFind(s, c) ==
    LET at == {j \in 1..Len(s) : s[j] = c}
    IN  IF at = {} THEN 0 ELSE CHOOSE j \in at : \A k \in at : k <= j

\* os.path.splitext(p)[0], posixpath: the extension starts at the last dot
\* of the last component, unless that component has only dots before it
SplitExtBase(p) ==
    LET sep == RFind(p, "/")
        dot == RFind(p, ".")
    IN  IF dot > sep /\ \E j \in (sep + 1)..(dot - 1) : p[j] # "."
        THEN SubSeq(p, 1, dot - 1)
        ELSE p

\* os.path.dirname(p), posixpath
DirName(p) ==
    LET head == SubSeq(p, 1, RFind(p, "/"))
    IN  IF head # << >> /\ \E j \in 1..Len(head) : head[j] # "/"
        THEN LET keep == {j \in 1..Len(head) : head[j] # "/"}
             IN  SubSeq(head, 1, CHOOSE j \in keep : \A k \in keep : k <= j)
        ELSE head

\* os.path.join(a, b), posixpath
PathJoin(a, b) ==
    IF b # << >> /\ Head(b) = "/" THEN b
    ELSE IF a = << >> \/ a[Len(a)] = "/" THEN a \o b
    ELSE a \o <<"/">> \o b

BmpExt == <<".", "b", "m", "p">>
IconCacheName == <<"i", "c", "o", "n", "_", "c", "a", "c", "h", "e">>
AppUnknown == <<"a", "p", "p", "_", "u", "n", "k", "n", "o", "w", "n">>
IconPlaceholder == <<"i", "c", "o", "n">>

\* str.replace(' ', '_')
RECURSIVE Underscored(_)
Underscored(s) ==
    IF s = << >> THEN << >>
    ELSE <<IF Head(s) = " " THEN "_" ELSE Head(s)>> \o Underscored(Tail(s))

\* line 489: re.sub(r'[^\w\s-]', '', app_name).strip().replace(' ', '_') or "icon"
SafeName(app_name) ==
    LET kept == SelectSeq(app_name,
                          LAMBDA c : IsWordChar(c) \/ IsSpace(c) \/ c = "-")
        trimmed == Strip(kept)
    IN  OrElse(Underscored(trimmed), IconPlaceholder)

\* a target that is always in the icon cache folder
FinalPathInCache(prof, cache_folder) ==
    PathJoin(cache_folder,
             SafeName(OrElse(Strip(DictGet(prof, "name", JStr(EmptyStr)).v),
                             AppUnknown)) \o BmpExt)

\* lines 487-496: where browse_icon writes the bitmap
FinalPath(prof, cache_folder) ==
    LET existing_path == Strip(DictGet(prof, "posterPath", JStr(EmptyStr)).v)
        app_name == OrElse(Strip(DictGet(prof, "name", JStr(EmptyStr)).v),
                           AppUnknown)
        safe_name == SafeName(app_name)
    IN  IF existing_path # << >>
        THEN SplitExtBase(existing_path) \o BmpExt
        ELSE PathJoin(cache_folder, safe_name \o BmpExt)

\* lines 186-187, 340-341
IconCacheFolderOf(path) == PathJoin(DirName(path), IconCacheName)

---------------------------------------------------------------------------
(* The stores and the inputs the model draws from *)

NameA == <<"a">>
NameB == <<"B">>
NameC == <<"C">>
NewEntryName == <<"N", "e", "w", " ", "E", "n", "t", "r", "y">>
NewAppId == <<"n", "e", "w", "-", "a", "p", "p", "-", "i", "d">>
PathP == <<"p">>
IconPng == <<"i", ".", "p", "n", "g">>
IconTyped == <<"y">>

\* a record with every recognized field and one passenger key
RecA ==
    JObj([applicationId |-> JStr(<<"1">>), applicationPath |-> JStr(EmptyStr),
          isCustom |-> JBool(TRUE), name |-> JStr(NameA),
          posterPath |-> JStr(EmptyStr), category |-> JNum(7)])

\* a record with an icon set and no applicationId, isCustom
RecB ==
    JObj([applicationPath |-> JStr(PathP), name |-> JStr(NameB),
          posterPath |-> JStr(IconPng)])

\* a record whose posterPath is white space, with a name to sanitize
RecS ==
    JObj([name |-> JStr(<<"c", " ", "d", "?">>), posterPath |-> JStr(<<" ">>)])

\* a record whose posterPath ends with a separator
RecD == JObj([name |-> JStr(NameB), posterPath |-> JStr(<<"1", "/">>)])

\* a document with passenger keys beside both applications keys
DocOf(list) ==
    JObj([applications |->
              JObj([applications |-> JList(list), version |-> JNum(2)]),
          profiles |-> JNum(5)])

DocNoApps == JObj([profiles |-> JNum(5)])
DocAppsNotDict == JObj([applications |-> JNum(1), profiles |-> JNum(5)])
DocInnerNotList ==
    JObj([applications |-> JObj([applications |-> JNum(1)]),
          profiles |-> JNum(5)])
DocInnerAbsent ==
    JObj([applications |-> JObj([version |-> JNum(2)]), profiles |-> JNum(5)])
NotADict == JList(<<JNum(1)>>)

BlobOf(x) == Utf8(json_dumps(x))

Row(id, blob) == [id |-> id, blob |-> blob]

\* the _id values of the rows
RowIds == <<10, 20, 30, 40>>
RowId1 == RowIds[1]
RowId2 == RowIds[2]

\* the two settings.db files the user can point the editor at
DbPaths == {1, 2}
DbPathStr(p) == <<IF p = 1 THEN "1" ELSE "2", "/", "d">>

OtherDbRows == <<Row(RowId1, BlobOf(DocOf(<<RecB>>)))>>

\* the tables the editor can start on
InitTables ==
    <<
      <<Row(RowId1, BlobOf(DocOf(<<RecA, RecB, RecA>>)))>>,
      <<Row(RowId1, BlobOf(DocOf(<<RecB>>))),
        Row(RowId2, BlobOf(DocOf(<<RecA>>)))>>,
      <<Row(RowId1, BlobOf(DocOf(<< >>))), Row(RowId2, EmptyBlob)>>,
      <<Row(RowId1, BlobOf(DocOf(<<RecA, RecS, RecD>>))),
        Row(RowId2, BadUtf8Blob)>>,
      <<Row(RowId1, BadJsonBlob), Row(RowId2, BlobOf(DocOf(<<RecB, RecB>>)))>>,
      <<Row(RowId1, BlobOf(DocNoApps)), Row(RowId2, BlobOf(DocOf(<<RecB>>)))>>,
      <<Row(RowId1, BlobOf(DocAppsNotDict)),
        Row(RowId2, BlobOf(DocInnerNotList)),
        Row(RowIds[3], BlobOf(DocInnerAbsent))>>
    >>

TypedNames == {NameC}
TypedAppPaths == {PathP}
TypedIconPaths == {IconTyped}
Sources == {"s1"}
\* what another program leaves in a row
ExternalBlobs == <<BlobOf(DocOf(<<RecB, RecA>>)), BadJsonBlob, BlobOf(NotADict)>>
PersistOutcomes == {"ok", "serialize_error", "storage_error"}

---------------------------------------------------------------------------
(* Helpers of the handlers *)

\* the editor object, the tables and the files, as one value
Cur ==
    [dbs |-> dbs, db_path |-> db_path, icon_cache_folder |-> icon_cache_folder,
     docs |-> docs, profiles |-> profiles,
     selected_profile_index |-> selected_profile_index,
     name_entry_var |-> name_entry_var, app_path_var |-> app_path_var,
     icon_path_var |-> icon_path_var, files |-> files,
     external |-> external, last |-> last]

Done(op, persist, load, msg, row) ==
    [op |-> op, persist |-> persist, load |-> load, msg |-> msg, row |-> row]

\* the records of a list in the order of the profile list
RECURSIVE InDisplayOrder(_)
InDisplayOrder(list) ==
    IF list = << >> THEN << >>
    ELSE LET rest == InDisplayOrder(SubSeq(list, 1, Len(list) - 1))
             rec == list[Len(list)]
             key(x) == Lower(DictGet(x, "name", JStr(EmptyStr)).v)
             behind == {j \in 1..Len(rest) : StrLess(key(rec), key(rest[j]))}
             at == IF behind = {} THEN Len(rest) + 1
                   ELSE CHOOSE j \in behind : \A k \in behind : j <= k
         IN  SubSeq(rest, 1, at - 1) \o <<rec>> \o SubSeq(rest, at, Len(rest))

\* a write-back that leaves the list in the order of the profile list
WithAppsListSorted(entire_json, list) ==
    LET apps_section == DictGet(entire_json, "applications", JObj(<< >>))
    IN  DictSet(entire_json, "applications",
                DictSet(apps_section, "applications",
                        JList(InDisplayOrder(list))))

\* entire_json["applications"]["applications"] = apps_list, with the
\* wrappers of lines 397-398, 408-409
WithAppsList(entire_json, list) ==
    LET apps_section == DictGet(entire_json, "applications", JObj(<< >>))
    IN  DictSet(entire_json, "applications",
                DictSet(apps_section, "applications", JList(list)))

\* prof.get(key, "") of a text field
FieldOf(prof, key) == DictGet(prof, key, JStr(EmptyStr)).v

\* the first index whose profile has the given name, 0 when there is none
\* (lines 418-422, 563-567)
FirstNamed(ds, ps, name) ==
    LET hits == {j \in 1..Len(ps) :
                    DictGet(ProfOf(ds, ps[j]), "name", JNone) = JStr(name)}
    IN  IF hits = {} THEN 0 ELSE CHOOSE j \in hits : \A k \in hits : j <= k

\* the object item["profile"] changed in place: seen through its document
SetProfInDocs(ds, e, prof) ==
    IF e.i = 0 THEN ds
    ELSE [ds EXCEPT ![e.d].entire_json =
             WithAppsList(@, [AppsListOf(@) EXCEPT ![e.i] = prof])]

\* ... and through its entry, when it is in no list any more
SetProfInProfiles(ps, idx, prof) ==
    IF ps[idx].i = 0 THEN [ps EXCEPT ![idx].det = prof] ELSE ps

\* the position of the first element equal to x, 0 if there is none
FirstEqual(list, x) ==
    LET hits == {j \in 1..Len(list) : list[j] = x}
    IN  IF hits = {} THEN 0 ELSE CHOOSE j \in hits : \A k \in hits : j <= k

RemoveAt(list, pos) ==
    IF pos = 0 THEN list
    ELSE SubSeq(list, 1, pos - 1) \o SubSeq(list, pos + 1, Len(list))

\* the entries after element pos left document d's list: the removed object
\* stays referenced by its entry, the later ones move up
EntriesAfterRemove(ds, ps, d, pos) ==
    IF pos = 0 THEN ps
    ELSE [j \in DOMAIN ps |->
            IF ps[j].d = d /\ ps[j].i = pos
            THEN [ps[j] EXCEPT !.i = 0, !.det = ProfOf(ds, ps[j])]
            ELSE IF ps[j].d = d /\ ps[j].i > pos
            THEN [ps[j] EXCEPT !.i = @ - 1]
            ELSE ps[j]]

\* the handler returns early, or raises before it changed anything
Returns(st, op, msg) == [st EXCEPT !.last = Done(op, "none", "none", msg, 0)]

\* on_profile_select for index idx (lines 377-385)
on_profile_select(st, idx) ==
    LET prof == ProfOf(st.docs, st.profiles[idx])
    IN  [st EXCEPT !.selected_profile_index = idx,
                   !.name_entry_var = FieldOf(prof, "name"),
                   !.app_path_var = FieldOf(prof, "applicationPath"),
                   !.icon_path_var = FieldOf(prof, "posterPath")]

\* lines 455-457, 357-359
ClearFields(st) ==
    [st EXCEPT !.name_entry_var = EmptyStr, !.app_path_var = EmptyStr,
               !.icon_path_var = EmptyStr]

\* self.profiles[self.selected_profile_index] raises IndexError
StaleIndex(st) == st.selected_profile_index > Len(st.profiles)

\* a reload that builds new entries over the documents in memory
ReloadedEntriesOnly(st, L) ==
    [st EXCEPT !.profiles = L.profiles, !.external = {}]

\* self.profiles = load_profiles_from_db(self.db_path); self.populate_list()
Reloaded(st, L) ==
    [st EXCEPT !.docs = L.docs, !.profiles = L.profiles, !.external = {}]

\* lines 417-426, 561-571: select the first entry with the name, if any
Reselect(st, name) ==
    LET idx == FirstNamed(st.docs, st.profiles, name)
    IN  IF idx # 0 THEN on_profile_select(st, idx) ELSE st

---------------------------------------------------------------------------
(* The handlers of GHubEditorApp *)

\* a template without the isCustom flag
NewProfileWithoutIsCustom ==
    JObj([applicationId |-> JStr(NewAppId), applicationPath |-> JStr(EmptyStr),
          name |-> JStr(NewEntryName), posterPath |-> JStr(EmptyStr)])

\* lines 400-406
NewProfile ==
    JObj([applicationId |-> JStr(NewAppId), applicationPath |-> JStr(EmptyStr),
          isCustom |-> JBool(TRUE), name |-> JStr(NewEntryName),
          posterPath |-> JStr(EmptyStr)])

\* lines 395-396: the entry whose row and document add_entry writes to
AddTarget(ps) == ps[1]

\* add_entry (lines 390-426)
add_entry(st, outcome, db_ok) ==
    IF st.profiles = << >>
    THEN Returns(st, "add_entry", "No DB Rows")
    ELSE LET item == AddTarget(st.profiles)
             row_id == item.db_row_id
             entire_json == st.docs[item.d].entire_json
             new_json == WithAppsList(entire_json,
                             Append(AppsListOf(entire_json), NewProfile))
             rows1 == save_profile_to_db(st.dbs[st.db_path], row_id,
                                         new_json, outcome)
             L == load_profiles_from_db(rows1, db_ok)
             st1 == [st EXCEPT !.dbs[st.db_path] = rows1,
                               !.docs[item.d].entire_json = new_json,
                               !.last = Done("add_entry", outcome,
                                             L.err,
                                             "none", row_id)]
         IN  IF L.ok THEN Reselect(Reloaded(st1, L), NewEntryName) ELSE st1

\* lines 442-444: the position delete_entry removes from the list
DeletePos(apps_list, prof_to_delete) == FirstEqual(apps_list, prof_to_delete)

\* delete_entry (lines 428-458)
delete_entry(st, confirm, outcome, db_ok) ==
    IF st.selected_profile_index = 0
    THEN Returns(st, "delete_entry", "No selection")
    ELSE IF ~confirm
    THEN Returns(st, "delete_entry", "none")
    ELSE IF StaleIndex(st)
    THEN Returns(st, "delete_entry", "IndexError")
    ELSE LET item == st.profiles[st.selected_profile_index]
             row_id == item.db_row_id
             entire_json == st.docs[item.d].entire_json
             prof_to_delete == ProfOf(st.docs, item)
             apps_list == AppsListOf(entire_json)
             pos == DeletePos(apps_list, prof_to_delete)
             new_json == WithAppsList(entire_json, RemoveAt(apps_list, pos))
             rows1 == save_profile_to_db(st.dbs[st.db_path], row_id,
                                         new_json, outcome)
             L == load_profiles_from_db(rows1, db_ok)
             st1 == [st EXCEPT !.dbs[st.db_path] = rows1,
                               !.docs[item.d].entire_json = new_json,
                               !.profiles = EntriesAfterRemove(st.docs,
                                                st.profiles, item.d, pos),
                               !.last = Done("delete_entry", outcome,
                                             L.err,
                                             "none", row_id)]
         IN  IF L.ok
             THEN ClearFields([Reloaded(st1, L) EXCEPT
                                  !.selected_profile_index = 0])
             ELSE st1

\* lines 499-500: img.save(final_path, "BMP") leaves a bitmap at the path
WriteBmp(fs, final_path) == fs \cup {final_path}

\* a browse_icon that sets posterPath before it writes the bitmap
browse_icon_path_first(st, src, open_ok, save_ok) ==
    IF st.selected_profile_index = 0
    THEN Returns(st, "browse_icon", "No Profile")
    ELSE IF ~open_ok
    THEN Returns(st, "browse_icon", "Could not open image file")
    ELSE IF StaleIndex(st)
    THEN Returns(st, "browse_icon", "IndexError")
    ELSE LET idx == st.selected_profile_index
             item == st.profiles[idx]
             prof == ProfOf(st.docs, item)
             final_path == FinalPath(prof, st.icon_cache_folder)
             prof1 == DictSet(prof, "posterPath", JStr(final_path))
             st1 == [st EXCEPT !.docs = SetProfInDocs(@, item, prof1),
                               !.profiles = SetProfInProfiles(@, idx, prof1),
                               !.icon_path_var = final_path]
         IN  IF ~save_ok
             THEN Returns(st1, "browse_icon", "Could not save BMP")
             ELSE [st1 EXCEPT !.files = WriteBmp(@, final_path),
                              !.last = Done("browse_icon", "none", "none",
                                            "none", 0)]

\* browse_icon (lines 463-508), for a chosen file src
browse_icon(st, src, open_ok, save_ok) ==
    IF st.selected_profile_index = 0
    THEN Returns(st, "browse_icon", "No Profile")
    ELSE IF ~open_ok
    THEN Returns(st, "browse_icon", "Could not open image file")
    ELSE IF StaleIndex(st)
    THEN Returns(st, "browse_icon", "IndexError")
    ELSE LET idx == st.selected_profile_index
             item == st.profiles[idx]
             prof == ProfOf(st.docs, item)
             final_path == FinalPath(prof, st.icon_cache_folder)
             prof1 == DictSet(prof, "posterPath", JStr(final_path))
         IN  IF ~save_ok
             THEN Returns(st, "browse_icon", "Could not save BMP")
             ELSE [st EXCEPT !.files = WriteBmp(@, final_path),
                             !.docs = SetProfInDocs(@, item, prof1),
                             !.profiles = SetProfInProfiles(@, idx, prof1),
                             !.icon_path_var = final_path,
                             !.last = Done("browse_icon", "none", "none",
                                           "none", 0)]

\* a clear_icon that writes the document to its row
clear_icon_and_save(st) ==
    IF st.selected_profile_index = 0 \/ StaleIndex(st)
    THEN Returns(st, "clear_icon", "No Profile")
    ELSE LET idx == st.selected_profile_index
             item == st.profiles[idx]
             prof1 == DictSet(ProfOf(st.docs, item), "posterPath",
                              JStr(EmptyStr))
             docs1 == SetProfInDocs(st.docs, item, prof1)
         IN  [st EXCEPT !.docs = docs1,
                        !.profiles = SetProfInProfiles(@, idx, prof1),
                        !.dbs[st.db_path] =
                            save_profile_to_db(@, item.db_row_id,
                                               docs1[item.d].entire_json, "ok"),
                        !.icon_path_var = EmptyStr,
                        !.last = Done("clear_icon", "none", "none", "none", 0)]

\* a clear_icon that removes the bitmap the record pointed to
clear_icon_removing_file(st) ==
    IF st.selected_profile_index = 0
    THEN Returns(st, "clear_icon", "No Profile")
    ELSE IF StaleIndex(st)
    THEN Returns(st, "clear_icon", "IndexError")
    ELSE LET idx == st.selected_profile_index
             item == st.profiles[idx]
             prof == ProfOf(st.docs, item)
             prof1 == DictSet(prof, "posterPath", JStr(EmptyStr))
         IN  [st EXCEPT !.docs = SetProfInDocs(@, item, prof1),
                        !.profiles = SetProfInProfiles(@, idx, prof1),
                        !.files = @ \ {FieldOf(prof, "posterPath")},
                        !.icon_path_var = EmptyStr,
                        !.last = Done("clear_icon", "none", "none", "none", 0)]

\* clear_icon (lines 510-519)
clear_icon(st) ==
    IF st.selected_profile_index = 0
    THEN Returns(st, "clear_icon", "No Profile")
    ELSE IF StaleIndex(st)
    THEN Returns(st, "clear_icon", "IndexError")
    ELSE LET idx == st.selected_profile_index
             item == st.profiles[idx]
             prof1 == DictSet(ProfOf(st.docs, item), "posterPath",
                              JStr(EmptyStr))
         IN  [st EXCEPT !.docs = SetProfInDocs(@, item, prof1),
                        !.profiles = SetProfInProfiles(@, idx, prof1),
                        !.icon_path_var = EmptyStr,
                        !.last = Done("clear_icon", "none", "none", "none", 0)]

\* a save_changes that builds the record anew from the form
RebuiltProf(prof, name, app_path, icon_path) ==
    JObj([name |-> JStr(name), applicationPath |-> JStr(app_path),
          posterPath |-> JStr(icon_path)])

\* a save_changes that leaves the icon of the record alone
UpdatedProfKeepingIcon(prof, name, app_path, icon_path) ==
    DictSet(DictSet(prof, "name", JStr(name)),
            "applicationPath", JStr(app_path))

\* lines 551-553: the fields save_changes writes into the record
UpdatedProf(prof, name, app_path, icon_path) ==
    DictSet(DictSet(DictSet(prof, "name", JStr(name)),
                    "applicationPath", JStr(app_path)),
            "posterPath", JStr(icon_path))

\* line 574: the dialog save_changes ends with
SaveMessage(outcome) == "Saved"

\* save_changes (lines 541-574)
save_changes(st, outcome, db_ok) ==
    IF st.selected_profile_index = 0
    THEN Returns(st, "save_changes", "No Profile")
    ELSE IF StaleIndex(st)
    THEN Returns(st, "save_changes", "IndexError")
    ELSE LET idx == st.selected_profile_index
             item == st.profiles[idx]
             row_id == item.db_row_id
             prof1 == UpdatedProf(ProfOf(st.docs, item), st.name_entry_var,
                                  st.app_path_var, st.icon_path_var)
             docs1 == SetProfInDocs(st.docs, item, prof1)
             rows1 == save_profile_to_db(st.dbs[st.db_path], row_id,
                                         docs1[item.d].entire_json, outcome)
             L == load_profiles_from_db(rows1, db_ok)
             st1 == [st EXCEPT !.dbs[st.db_path] = rows1,
                               !.docs = docs1,
                               !.profiles = SetProfInProfiles(@, idx, prof1),
                               !.last = Done("save_changes", outcome,
                                             L.err,
                                             IF L.ok THEN SaveMessage(outcome)
                                                     ELSE "none",
                                             row_id)]
         IN  IF L.ok THEN Reselect(Reloaded(st1, L), st.name_entry_var)
             ELSE st1

\* change_db_path (lines 324-361), for a chosen existing file new_path
change_db_path(st, new_path, db_ok) ==
    LET L == load_profiles_from_db(st.dbs[new_path], db_ok)
        st1 == [st EXCEPT !.db_path = new_path,
                          !.icon_cache_folder =
                              IconCacheFolderOf(DbPathStr(new_path)),
                          !.last = Done("change_db_path", "none",
                                        L.err,
                                        IF L.ok THEN "DB Path Changed"
                                                ELSE "none", 0)]
    IN  IF L.ok
        THEN ClearFields([Reloaded(st1, L) EXCEPT
                             !.selected_profile_index = 0])
        ELSE st1

\* another program (G HUB itself) rewrites the payload of the n-th row of
\* the table the editor is on
external_write(st, n, blob) ==
    [st EXCEPT !.dbs[st.db_path][n].blob = blob,
               !.external = @ \cup {<<st.db_path, st.dbs[st.db_path][n].id>>},
               !.last = Done("external_write", "none", "none", "none",
                             st.dbs[st.db_path][n].id)]

---------------------------------------------------------------------------
(* The handlers of GHUB_A4.py, on the table the editor is on *)

\* GHUB_A4.py line 88 defines save_profile_to_db(row_id, entire_json); the
\* handlers call it as save_profile_to_db(DB_PATH, row_id, entire_json)
\* (lines 290, 330, 454). The call raises TypeError before the body runs:
\* no row is written
a4_save_profile_to_db_call(rows, row_id, entire_json) == rows

\* GHUB_A4.py add_entry (lines 264-306): the document is changed in memory,
\* the call of line 290 raises, the reload of line 293 is not reached
a4_add_entry(st) ==
    IF st.profiles = << >>
    THEN Returns(st, "add_entry", "No DB Rows")
    ELSE LET item == st.profiles[1]
             row_id == item.db_row_id
             entire_json == st.docs[item.d].entire_json
             new_json == WithAppsList(entire_json,
                             Append(AppsListOf(entire_json), NewProfile))
             rows1 == a4_save_profile_to_db_call(st.dbs[st.db_path], row_id,
                                                 new_json)
         IN  [st EXCEPT !.dbs[st.db_path] = rows1,
                        !.docs[item.d].entire_json = new_json,
                        !.last = Done("add_entry", "TypeError", "none",
                                      "none", row_id)]

\* GHUB_A4.py delete_entry (lines 308-340): the call of line 330 raises
a4_delete_entry(st, confirm) ==
    IF st.selected_profile_index = 0
    THEN Returns(st, "delete_entry", "No selection")
    ELSE IF ~confirm
    THEN Returns(st, "delete_entry", "none")
    ELSE IF StaleIndex(st)
    THEN Returns(st, "delete_entry", "IndexError")
    ELSE LET item == st.profiles[st.selected_profile_index]
             row_id == item.db_row_id
             entire_json == st.docs[item.d].entire_json
             apps_list == AppsListOf(entire_json)
             pos == FirstEqual(apps_list, ProfOf(st.docs, item))
             new_json == WithAppsList(entire_json, RemoveAt(apps_list, pos))
             rows1 == a4_save_profile_to_db_call(st.dbs[st.db_path], row_id,
                                                 new_json)
         IN  [st EXCEPT !.dbs[st.db_path] = rows1,
                        !.docs[item.d].entire_json = new_json,
                        !.profiles = EntriesAfterRemove(st.docs, st.profiles,
                                                        item.d, pos),
                        !.last = Done("delete_entry", "TypeError", "none",
                                      "none", row_id)]

\* GHUB_A4.py save_changes (lines 438-475): the call of line 454 raises
a4_save_changes(st) ==
    IF st.selected_profile_index = 0
    THEN Returns(st, "save_changes", "No Profile")
    ELSE IF StaleIndex(st)
    THEN Returns(st, "save_changes", "IndexError")
    ELSE LET idx == st.selected_profile_index
             item == st.profiles[idx]
             row_id == item.db_row_id
             prof1 == UpdatedProf(ProfOf(st.docs, item), st.name_entry_var,
                                  st.app_path_var, st.icon_path_var)
             docs1 == SetProfInDocs(st.docs, item, prof1)
             rows1 == a4_save_profile_to_db_call(st.dbs[st.db_path], row_id,
                                                 docs1[item.d].entire_json)
         IN  [st EXCEPT !.dbs[st.db_path] = rows1,
                        !.docs = docs1,
                        !.profiles = SetProfInProfiles(@, idx, prof1),
                        !.last = Done("save_changes", "TypeError", "none",
                                      "none", row_id)]

\* the state GHUB_A4.py is in after the handler op, started in state st
a4_handler(st, op, confirm) ==
    IF op = "add_entry" THEN a4_add_entry(st)
    ELSE IF op = "delete_entry" THEN a4_delete_entry(st, confirm)
    ELSE a4_save_changes(st)

---------------------------------------------------------------------------
(* The editor *)

\* the connections a handler that ended as l leaves without conn.close(): the
\* one of a load whose query raised (lines 115-119; the traceback keeps it),
\* and the one of a save whose UPDATE raised (lines 160-165), unless the
\* interpreter has released that one when the function returned
LeftOpen(l) ==
    LET of_load == IF l.load = "sqlite3.Error" THEN 1 ELSE 0
    IN  IF l.persist = "storage_error" THEN {of_load, of_load + 1}
        ELSE {of_load}

Becomes(st) ==
    /\ dbs' = st.dbs
    /\ db_path' = st.db_path
    /\ icon_cache_folder' = st.icon_cache_folder
    /\ docs' = st.docs
    /\ profiles' = st.profiles
    /\ selected_profile_index' = st.selected_profile_index
    /\ name_entry_var' = st.name_entry_var
    /\ app_path_var' = st.app_path_var
    /\ icon_path_var' = st.icon_path_var
    /\ files' = st.files
    /\ external' = st.external
    /\ \E n \in LeftOpen(st.last) : unclosed' = unclosed + n
    /\ last' = st.last
    /\ steps' = steps + 1

OnProfileSelect(idx) ==
    /\ steps < MaxSteps
    /\ \E r \in {on_profile_select(Cur, idx)} :
          Becomes([r EXCEPT !.last = Done("on_profile_select", "none", "none",
                                         "none", 0)])

\* lines 371-375: the selection event with nothing selected
OnProfileSelectNone ==
    /\ steps < MaxSteps
    /\ Becomes([Cur EXCEPT !.selected_profile_index = 0,
                           !.last = Done("on_profile_select", "none", "none",
                                         "none", 0)])

\* the user types into an entry of the form
Typed(field, s) ==
    [Cur EXCEPT ![field] = s,
                !.last = Done("type", "none", "none", "none", 0)]

TypeName(s) ==
    /\ steps < MaxSteps
    /\ name_entry_var # s
    /\ Becomes(Typed("name_entry_var", s))

TypeAppPath(s) ==
    /\ steps < MaxSteps
    /\ app_path_var # s
    /\ Becomes(Typed("app_path_var", s))

TypeIconPath(s) ==
    /\ steps < MaxSteps
    /\ icon_path_var # s
    /\ Becomes(Typed("icon_path_var", s))

AddEntry(outcome, db_ok) ==
    /\ steps < MaxSteps
    /\ \E r \in {add_entry(Cur, outcome, db_ok)} : Becomes(r)

DeleteEntry(confirm, outcome, db_ok) ==
    /\ steps < MaxSteps
    /\ \E r \in {delete_entry(Cur, confirm, outcome, db_ok)} : Becomes(r)

BrowseIcon(src, open_ok, save_ok) ==
    /\ steps < MaxSteps
    /\ \E r \in {browse_icon(Cur, src, open_ok, save_ok)} : Becomes(r)

ClearIcon ==
    /\ steps < MaxSteps
    /\ \E r \in {clear_icon(Cur)} : Becomes(r)

SaveChanges(outcome, db_ok) ==
    /\ steps < MaxSteps
    /\ \E r \in {save_changes(Cur, outcome, db_ok)} : Becomes(r)

ChangeDbPath(new_path, db_ok) ==
    /\ steps < MaxSteps
    /\ \E r \in {change_db_path(Cur, new_path, db_ok)} : Becomes(r)

ExternalWrite(n, b) ==
    /\ steps < MaxSteps
    /\ Becomes(external_write(Cur, n, ExternalBlobs[b]))

\* __init__ (lines 174-199) on a table of the first settings.db
Started(table) ==
    LET L == load_profiles_from_db(table, TRUE)
    IN  [dbs |-> (1 :> table) @@ (2 :> OtherDbRows),
         db_path |-> 1,
         icon_cache_folder |-> IconCacheFolderOf(DbPathStr(1)),
         docs |-> L.docs, profiles |-> L.profiles,
         selected_profile_index |-> 0,
         name_entry_var |-> EmptyStr, app_path_var |-> EmptyStr,
         icon_path_var |-> EmptyStr, files |-> {}, external |-> {},
         last |-> Done("init", "none", "ok", "none", 0)]

Init ==
    \E t \in 1..Len(InitTables) :
        /\ load_profiles_from_db(InitTables[t], TRUE).ok
        /\ \E r \in {Started(InitTables[t])} :
              /\ dbs = r.dbs
              /\ db_path = r.db_path
              /\ icon_cache_folder = r.icon_cache_folder
              /\ docs = r.docs
              /\ profiles = r.profiles
              /\ selected_profile_index = r.selected_profile_index
              /\ name_entry_var = r.name_entry_var
              /\ app_path_var = r.app_path_var
              /\ icon_path_var = r.icon_path_var
              /\ files = r.files
              /\ external = r.external
              /\ unclosed = 0
              /\ last = r.last
              /\ steps = 0

Next ==
    \/ \E idx \in 1..Len(profiles) : OnProfileSelect(idx)
    \/ OnProfileSelectNone
    \/ \E s \in TypedNames : TypeName(s)
    \/ \E s \in TypedAppPaths : TypeAppPath(s)
    \/ \E s \in TypedIconPaths : TypeIconPath(s)
    \/ \E outcome \in PersistOutcomes, db_ok \in BOOLEAN :
          AddEntry(outcome, db_ok)
    \/ \E confirm \in BOOLEAN, outcome \in PersistOutcomes, db_ok \in BOOLEAN :
          DeleteEntry(confirm, outcome, db_ok)
    \/ \E src \in Sources, open_ok \in BOOLEAN, save_ok \in BOOLEAN :
          BrowseIcon(src, open_ok, save_ok)
    \/ ClearIcon
    \/ \E outcome \in PersistOutcomes, db_ok \in BOOLEAN :
          SaveChanges(outcome, db_ok)
    \/ \E new_path \in DbPaths, db_ok \in BOOLEAN :
          ChangeDbPath(new_path, db_ok)
    \/ \E n \in 1..Len(dbs[db_path]), b \in 1..Len(ExternalBlobs) :
          ExternalWrite(n, b)

Spec == Init /\ [][Next]_vars

\* the editor alone: no other program writes the tables
EditorNext ==
    \/ \E idx \in 1..Len(profiles) : OnProfileSelect(idx)
    \/ OnProfileSelectNone
    \/ \E s \in TypedNames : TypeName(s)
    \/ \E s \in TypedAppPaths : TypeAppPath(s)
    \/ \E s \in TypedIconPaths : TypeIconPath(s)
    \/ \E outcome \in PersistOutcomes, db_ok \in BOOLEAN :
          AddEntry(outcome, db_ok)
    \/ \E confirm \in BOOLEAN, outcome \in PersistOutcomes, db_ok \in BOOLEAN :
          DeleteEntry(confirm, outcome, db_ok)
    \/ \E src \in Sources, open_ok \in BOOLEAN, save_ok \in BOOLEAN :
          BrowseIcon(src, open_ok, save_ok)
    \/ ClearIcon
    \/ \E outcome \in PersistOutcomes, db_ok \in BOOLEAN :
          SaveChanges(outcome, db_ok)
    \/ \E new_path \in DbPaths, db_ok \in BOOLEAN :
          ChangeDbPath(new_path, db_ok)

EditorSpec == Init /\ [][EditorNext]_vars

---------------------------------------------------------------------------
(* The editor on a profile of a given name beside a profile named a, for
   the names browse_icon turns into file names *)

\* the longest name
MaxNameLen == 3

NameChars == {"a", " ", "?", "-"}

RECURSIVE NamesUpTo(_)
NamesUpTo(n) ==
    IF n = 0 THEN {<< >>}
    ELSE NamesUpTo(n - 1)
         \cup {Append(s, c) : s \in NamesUpTo(n - 1), c \in NameChars}

\* the editor started on a table with a record of that name and a record
\* named a, both without icon, and the first profile selected
StartedOnName(name) ==
    on_profile_select(
        Started(<<Row(RowId1,
                      BlobOf(DocOf(<<JObj([name |-> JStr(name)]),
                                     JObj([name |-> JStr(NameA)])>>)))>>),
        1)

NameInit ==
    \E name \in NamesUpTo(MaxNameLen) :
        \E r \in {StartedOnName(name)} :
            /\ dbs = r.dbs
            /\ db_path = r.db_path
            /\ icon_cache_folder = r.icon_cache_folder
            /\ docs = r.docs
            /\ profiles = r.profiles
            /\ selected_profile_index = r.selected_profile_index
            /\ name_entry_var = r.name_entry_var
            /\ app_path_var = r.app_path_var
            /\ icon_path_var = r.icon_path_var
            /\ files = r.files
            /\ external = r.external
            /\ unclosed = 0
            /\ last = r.last
            /\ steps = 0

NameNext ==
    \/ \E idx \in 1..Len(profiles) : OnProfileSelect(idx)
    \/ \E src \in Sources, open_ok \in BOOLEAN, save_ok \in BOOLEAN :
          BrowseIcon(src, open_ok, save_ok)

NameSpec == NameInit /\ [][NameNext]_vars

---------------------------------------------------------------------------
(* What the properties below read off a state *)

\* the row of a table with the given _id
RowAt(rows, row_id) == rows[CHOOSE n \in DOMAIN rows : rows[n].id = row_id]

HasRow(rows, row_id) == \E n \in DOMAIN rows : rows[n].id = row_id

\* the parsed payload of that row
StoredDoc(rows, row_id) == json_loads(RowAt(rows, row_id).blob.text)

\* the document in memory that was read from that row
MemoryDoc(ds, row_id) ==
    ds[CHOOSE d \in DOMAIN ds : ds[d].db_row_id = row_id].entire_json

HasDoc(ds, row_id) == \E d \in DOMAIN ds : ds[d].db_row_id = row_id

\* the records the rows with a readable payload hold, in fetch order
RECURSIVE ValidRowProfiles(_)
ValidRowProfiles(rows) ==
    IF rows = << >> THEN << >>
    ELSE (IF RowParses(Head(rows)) /\ IsDict(json_loads(Head(rows).blob.text))
          THEN AppsListOf(json_loads(Head(rows).blob.text))
          ELSE << >>) \o ValidRowProfiles(Tail(rows))

\* the records the profile list shows
LoadedProfiles == [j \in 1..Len(profiles) |-> ProfOf(docs, profiles[j])]

Count(list, x) == Cardinality({j \in 1..Len(list) : list[j] = x})

\* the same records, each as often, in any order
SameRecords(a, b) ==
    /\ Len(a) = Len(b)
    /\ \A j \in 1..Len(a) : Count(a, a[j]) = Count(b, a[j])

PersistFailed == last.persist \in {"serialize_error", "storage_error"}

Handlers == {"add_entry", "delete_entry", "save_changes"}

\* the fields save_changes writes
Fields == {"name", "applicationPath", "posterPath"}

\* new is old except, at most, for the three fields of record i: every other
\* key of the document, of its applications section and of the record, and
\* every other record, is there with its value
FrameKept(old, new, i) ==
    /\ IsDict(new)
    /\ DOMAIN new.v = DOMAIN old.v
    /\ \A k \in DOMAIN old.v \ {"applications"} : new.v[k] = old.v[k]
    /\ IsDict(new.v["applications"])
    /\ DOMAIN new.v["applications"].v = DOMAIN old.v["applications"].v
    /\ \A k \in DOMAIN old.v["applications"].v \ {"applications"} :
          new.v["applications"].v[k] = old.v["applications"].v[k]
    /\ LET ol == AppsListOf(old)
           nl == AppsListOf(new)
       IN  /\ Len(nl) = Len(ol)
           /\ \A j \in (1..Len(ol)) \ {i} : nl[j] = ol[j]
           /\ IsDict(nl[i])
           /\ DOMAIN nl[i].v = DOMAIN ol[i].v \cup Fields
           /\ \A k \in DOMAIN ol[i].v \ Fields : nl[i].v[k] = ol[i].v[k]

\* record i of the document has the three fields at the given values
FieldsSet(doc, i, name, app_path, icon_path) ==
    LET rec == AppsListOf(doc)[i]
    IN  /\ DictGet(rec, "name", JNone) = JStr(name)
        /\ DictGet(rec, "applicationPath", JNone) = JStr(app_path)
        /\ DictGet(rec, "posterPath", JNone) = JStr(icon_path)

\* some record of the list has the name and a key in its keys
HasRecord(list, name, key) ==
    \E j \in 1..Len(list) :
        /\ DictGet(list[j], "name", JNone) = JStr(name)
        /\ key \in DOMAIN list[j].v

---------------------------------------------------------------------------
(* Properties *)

\* C1: delete_entry on the entry of the later of two equal records of one
\* list removes the record at the entry's position: the row then holds the
\* list without that position, every other record in its place.
C1_DeleteRemovesHandlePosition ==
    [][(last'.op = "delete_entry" /\ last'.row # 0 /\ last'.persist = "ok") =>
         LET item == profiles[selected_profile_index]
             apps_list == AppsListOf(docs[item.d].entire_json)
         IN  (item.i # 0 /\ HasRow(dbs[db_path], item.db_row_id)
                /\ FirstEqual(apps_list, apps_list[item.i]) < item.i)
             => AppsListOf(StoredDoc(dbs'[db_path], item.db_row_id))
                    = RemoveAt(apps_list, item.i)]_vars

\* C2: whenever the table could be queried, load returns the records of
\* all rows whose payload is non-empty, valid UTF-8 and valid JSON; no row
\* keeps the records of the other rows from being returned.
C2_LoadReturnsValidRows ==
    last.load \in {"ok", "AttributeError"} =>
        /\ last.load = "ok"
        /\ SameRecords(LoadedProfiles, ValidRowProfiles(dbs[db_path]))

\* C3: add_entry appends the new record to the first document in load
\* order (the first row that was read), whatever the names of the profiles.
C3_AddTargetsFirstLoadedDocument ==
    [][(last'.op = "add_entry" /\ last'.row # 0) =>
         /\ last'.row = docs[1].db_row_id
         /\ (last'.persist = "ok"
               /\ HasRow(dbs[db_path], docs[1].db_row_id)) =>
               AppsListOf(StoredDoc(dbs'[db_path], docs[1].db_row_id))
                   = Append(AppsListOf(docs[1].entire_json), NewProfile)]_vars

\* C4: a persist that failed, at json.dumps or at the UPDATE, is reported
\* by the handler that issued it; no handler reports success after it.
C4_PersistFailureReported ==
    PersistFailed => last.msg \notin {"Saved", "none"}

\* C5: browse_icon and clear_icon change the documents in memory only and
\* leave every row as it is; a row's payload changes only in the persist
\* step that add_entry, delete_entry and save_changes run themselves, when
\* it succeeds, or by another program.
C5_StoreChangesOnlyThroughPersist ==
    [][/\ last'.op \in {"browse_icon", "clear_icon"} => dbs' = dbs
       /\ dbs' # dbs =>
             \/ last'.op = "external_write"
             \/ last'.op \in Handlers /\ last'.persist = "ok"]_vars

\* C5, witness: an icon was set or cleared on the selected record, and the
\* row of its document does not hold the change.
C5_IconChangedInMemoryOnly ==
    /\ last.op \in {"browse_icon", "clear_icon"}
    /\ last.msg = "none"
    /\ LET item == profiles[selected_profile_index]
       IN  /\ item.i # 0
           /\ HasRow(dbs[db_path], item.db_row_id)
           /\ RowParses(RowAt(dbs[db_path], item.db_row_id))
           /\ StoredDoc(dbs[db_path], item.db_row_id)
                  # docs[item.d].entire_json

\* C5 as stated: add, update, delete, materialize and clear leave the rows
\* of the store unchanged.
C5_MutationsLeaveStoreUnchanged ==
    [][last'.op \in Handlers \cup {"browse_icon", "clear_icon"}
         => dbs' = dbs]_vars

\* C6: after an add, save or delete that failed (its persist failed or its
\* reload raised) the document in memory and the payload of the targeted
\* row agree: both show the operation's effects, or neither does.
C6_FailedOperationAllOrNothing ==
    (last.op \in Handlers /\ HasRow(dbs[db_path], last.row)
        /\ (PersistFailed \/ last.load # "ok")) =>
       LET row == RowAt(dbs[db_path], last.row)
       IN  IF RowParses(row) /\ IsDict(json_loads(row.blob.text))
           THEN /\ HasDoc(docs, last.row)
                /\ MemoryDoc(docs, last.row) = json_loads(row.blob.text)
           ELSE ~HasDoc(docs, last.row)

\* C7: when persist fails, at json.dumps or at the UPDATE, every row of the
\* store, the targeted one included, holds the payload it held before: one
\* attempt, nothing written.
C7_FailedPersistLeavesRows ==
    [][last'.persist \in {"serialize_error", "storage_error"}
         => dbs' = dbs]_vars

\* C7, witness: save_changes was to write a new name, its persist failed,
\* and the reloaded profiles do not have the name.
C7_FailedSaveNotWritten ==
    /\ last.op = "save_changes"
    /\ last.persist \in {"serialize_error", "storage_error"}
    /\ last.load = "ok"
    /\ name_entry_var = NameC
    /\ \A j \in 1..Len(profiles) :
          FieldOf(ProfOf(docs, profiles[j]), "name") # NameC

\* C8: the persist of add_entry, delete_entry and save_changes is keyed by
\* the row id of the document that owns the entry, and the payload of every
\* other row, of either table, is unchanged.
C8_PersistTouchesOneRow ==
    [][last'.op \in Handlers =>
         /\ \A p \in DbPaths :
               /\ Len(dbs'[p]) = Len(dbs[p])
               /\ \A n \in 1..Len(dbs[p]) :
                     /\ dbs'[p][n].id = dbs[p][n].id
                     /\ (p # db_path \/ dbs[p][n].id # last'.row)
                           => dbs'[p][n].blob = dbs[p][n].blob
         /\ (last'.op \in {"delete_entry", "save_changes"} /\ last'.row # 0)
               => last'.row = profiles[selected_profile_index].db_row_id]_vars

\* C8, witness: save_changes wrote a renamed record into one row of a table
\* that has another row with a document.
C8_SavedOneOfTwoRows ==
    /\ last.op = "save_changes"
    /\ last.persist = "ok"
    /\ HasRow(dbs[db_path], last.row)
    /\ HasRecord(AppsListOf(StoredDoc(dbs[db_path], last.row)), NameC, "name")
    /\ \E n \in 1..Len(dbs[db_path]) :
          /\ dbs[db_path][n].id # last.row
          /\ RowParses(dbs[db_path][n])

\* C9: save_changes on an entry whose row is in the table sets the name,
\* applicationPath and posterPath of the record the entry refers to to the
\* values of the form, and every other key of the record, every other record
\* and every other key of the document keeps its value: in the row once the
\* persist succeeded, and in the document in memory (the one the handler
\* leaves there: the reloaded one, or the one it wrote to when the reload
\* raised).
C9_SaveSetsThreeFields ==
    [][(last'.op = "save_changes" /\ last'.row # 0) =>
         LET item == profiles[selected_profile_index]
             old == docs[item.d].entire_json
             stored == StoredDoc(dbs'[db_path], item.db_row_id)
             kept == IF last'.load = "ok"
                     THEN MemoryDoc(docs', item.db_row_id)
                     ELSE docs'[item.d].entire_json
         IN  (item.i # 0 /\ HasRow(dbs[db_path], item.db_row_id)) =>
               /\ last'.persist = "ok" =>
                     /\ FrameKept(old, stored, item.i)
                     /\ FieldsSet(stored, item.i, name_entry_var,
                                  app_path_var, icon_path_var)
               /\ (last'.persist = "ok" \/ last'.load # "ok") =>
                     /\ FrameKept(old, kept, item.i)
                     /\ FieldsSet(kept, item.i, name_entry_var,
                                  app_path_var, icon_path_var)]_vars

\* C9, witness: save_changes wrote a typed name into a record that has a
\* passenger key, the reload raised, and the row holds the record.
C9_SavedRecordWithPassenger ==
    /\ last.op = "save_changes"
    /\ last.persist = "ok"
    /\ last.load # "ok"
    /\ HasRow(dbs[db_path], last.row)
    /\ HasRecord(AppsListOf(StoredDoc(dbs[db_path], last.row)), NameC,
                 "category")
    /\ HasRecord(AppsListOf(MemoryDoc(docs, last.row)), NameC, "category")

\* C10: what json.loads reads back from what json.dumps wrote of a document
\* in memory is that document, passenger keys included; and the document
\* reloaded after save_changes persisted it is the document that was loaded
\* before, except for the three fields of the record that was saved.
C10_RoundTrip ==
    /\ [](\A d \in DOMAIN docs :
            json_loads(json_dumps(docs[d].entire_json)) = docs[d].entire_json)
    /\ [][(last'.op = "save_changes" /\ last'.row # 0
             /\ last'.persist = "ok" /\ last'.load = "ok") =>
            LET item == profiles[selected_profile_index]
            IN  (item.i # 0 /\ HasRow(dbs[db_path], item.db_row_id)) =>
                  FrameKept(docs[item.d].entire_json,
                            MemoryDoc(docs', item.db_row_id), item.i)]_vars

\* C10, witness: a document with passenger keys at its three levels was
\* saved with a renamed record and loaded again.
C10_ReloadedWithPassengers ==
    /\ last.op = "save_changes"
    /\ last.persist = "ok"
    /\ last.load = "ok"
    /\ HasDoc(docs, last.row)
    /\ LET doc == MemoryDoc(docs, last.row)
       IN  /\ "profiles" \in DOMAIN doc.v
           /\ "version" \in DOMAIN doc.v["applications"].v
           /\ HasRecord(AppsListOf(doc), NameC, "category")

\* the record add_entry is to append: the five fields and their values
IsTemplate(rec) ==
    /\ IsDict(rec)
    /\ DOMAIN rec.v = {"applicationId", "applicationPath", "isCustom", "name",
                       "posterPath"}
    /\ rec.v["applicationId"] = JStr(NewAppId)
    /\ rec.v["applicationPath"] = JStr(EmptyStr)
    /\ rec.v["isCustom"] = JBool(TRUE)
    /\ rec.v["name"] = JStr(NewEntryName)
    /\ rec.v["posterPath"] = JStr(EmptyStr)

\* C11: after add_entry persisted and reloaded, the list of the document it
\* wrote to is the list that document had in memory before, followed by
\* exactly one more record, and that record has exactly the five fields of
\* the template with the template's values; the row holds the same list.
C11_AddAppendsTemplate ==
    [][(last'.op = "add_entry" /\ last'.row # 0 /\ last'.persist = "ok"
          /\ last'.load = "ok" /\ HasRow(dbs[db_path], last'.row)) =>
         LET old == AppsListOf(MemoryDoc(docs, last'.row))
             new == AppsListOf(MemoryDoc(docs', last'.row))
         IN  /\ HasDoc(docs', last'.row)
             /\ Len(new) = Len(old) + 1
             /\ SubSeq(new, 1, Len(old)) = old
             /\ IsTemplate(new[Len(new)])
             /\ AppsListOf(StoredDoc(dbs'[db_path], last'.row)) = new]_vars

\* C11, witness: add_entry persisted and reloaded a document that had
\* records before, and the new record is the last of its list.
C11_AddedAfterOthers ==
    /\ last.op = "add_entry"
    /\ last.persist = "ok"
    /\ last.load = "ok"
    /\ HasDoc(docs, last.row)
    /\ LET list == AppsListOf(MemoryDoc(docs, last.row))
       IN  /\ Len(list) >= 2
           /\ IsTemplate(list[Len(list)])
           /\ ~IsTemplate(list[1])

\* C12: add_entry with documents loaded of which none has a record yet (the
\* applications object or its list absent, or the list empty) creates the
\* missing wrappers and appends: afterwards a loaded document has
\* applications.applications equal to the one-element list of the template.
C12_AddCreatesWrappers ==
    [][(last'.op = "add_entry" /\ profiles = << >> /\ docs # << >>) =>
         \E d \in DOMAIN docs' :
             /\ IsDict(docs'[d].entire_json)
             /\ Len(AppsListOf(docs'[d].entire_json)) = 1
             /\ IsTemplate(AppsListOf(docs'[d].entire_json)[1])]_vars

\* the payload parsed to x, and x has no applications.applications list
NoApplicationsList(x) ==
    IF ~IsDict(x) THEN TRUE
    ELSE IF ~IsDict(DictGet(x, "applications", JNone)) THEN TRUE
    ELSE ~IsList(DictGet(DictGet(x, "applications", JNone), "applications",
                         JNone))

\* C13: whenever the table could be queried, a row whose payload parses as
\* JSON without an applications.applications list (the top-level value not
\* an object included) does not make load fail and contributes no profile,
\* and every row with a list has one entry for each of its records.
C13_ShapelessRowsContributeNothing ==
    last.load \in {"ok", "AttributeError"} =>
        /\ last.load = "ok"
        /\ \A n \in 1..Len(dbs[db_path]) :
              LET row == dbs[db_path][n]
                  mine == {j \in 1..Len(profiles) :
                              profiles[j].db_row_id = row.id}
              IN  RowParses(row) =>
                    IF NoApplicationsList(json_loads(row.blob.text))
                    THEN mine = {}
                    ELSE Cardinality(mine)
                             = Len(AppsListOf(json_loads(row.blob.text)))

\* the name of the j-th displayed profile
NameAt(j) == FieldOf(ProfOf(docs, profiles[j]), "name")

\* C14: after a load, the profile list is in the order of the names
\* compared without regard to case, and entries whose names are equal
\* ignoring case are in encounter order: by document in load order, and
\* within a document by position in its list.
C14_SortedByNameStable ==
    last.load = "ok" =>
        \A j \in 1..Len(profiles) : \A k \in (j + 1)..Len(profiles) :
            /\ ~StrLess(Lower(NameAt(k)), Lower(NameAt(j)))
            /\ Lower(NameAt(j)) = Lower(NameAt(k)) =>
                  \/ profiles[j].d < profiles[k].d
                  \/ /\ profiles[j].d = profiles[k].d
                     /\ profiles[j].i < profiles[k].i

\* C14, witness: a reload listed two records of equal name from two
\* documents, and a name in upper case behind a name in lower case that
\* it precedes when compared as written.
C14_TieAcrossDocumentsAndCase ==
    /\ last.op \in Handlers
    /\ last.load = "ok"
    /\ \E j \in 1..Len(profiles) : \E k \in (j + 1)..Len(profiles) :
          /\ Lower(NameAt(j)) = Lower(NameAt(k))
          /\ profiles[j].d # profiles[k].d
    /\ \E j \in 1..Len(profiles) : \E k \in (j + 1)..Len(profiles) :
          StrLess(NameAt(k), NameAt(j))

\* C15: in every state the profile list has exactly one entry for each
\* record of each loaded document's list; the record of an entry is an
\* element of the list of the entry's own document, and the entry carries
\* that document's row id. Two equal records are two elements, with an
\* entry each.
C15_IndexMatchesDocuments ==
    /\ \A j \in 1..Len(profiles) :
          /\ profiles[j].i # 0
          /\ profiles[j].d \in DOMAIN docs
          /\ profiles[j].i
                 \in DOMAIN AppsListOf(docs[profiles[j].d].entire_json)
          /\ profiles[j].db_row_id = docs[profiles[j].d].db_row_id
    /\ \A d \in DOMAIN docs :
          \A i \in DOMAIN AppsListOf(docs[d].entire_json) :
              Cardinality({j \in 1..Len(profiles) :
                              profiles[j].d = d /\ profiles[j].i = i}) = 1

\* C16: when another program wrote the row of a loaded document after the
\* load, a later successful persist of that document by add_entry,
\* delete_entry or save_changes leaves in the row exactly the serialization
\* of the document in memory: what the other program wrote is gone, nothing
\* of it is merged in and the write is not refused.
C16_PersistOverwritesExternalWrite ==
    [][(last'.op \in Handlers /\ last'.row # 0 /\ last'.persist = "ok"
          /\ <<db_path, last'.row>> \in external
          /\ HasRow(dbs[db_path], last'.row)) =>
         LET old == MemoryDoc(docs, last'.row)
             blob == RowAt(dbs'[db_path], last'.row).blob
             stored == StoredDoc(dbs'[db_path], last'.row)
         IN  /\ blob.enc = "utf8"
             /\ blob.text = json_dumps(stored)
             /\ last'.load # "ok" =>
                   blob = BlobOf(MemoryDoc(docs', last'.row))
             /\ last'.op = "add_entry" =>
                   /\ Len(AppsListOf(stored)) = Len(AppsListOf(old)) + 1
                   /\ IsTemplate(AppsListOf(stored)[Len(AppsListOf(stored))])
                   /\ stored = WithAppsList(old,
                                   Append(AppsListOf(old),
                                          AppsListOf(stored)[
                                              Len(AppsListOf(stored))]))
             /\ (last'.op = "save_changes"
                    /\ profiles[selected_profile_index].i # 0) =>
                   /\ FrameKept(old, stored,
                                profiles[selected_profile_index].i)
                   /\ FieldsSet(stored, profiles[selected_profile_index].i,
                                name_entry_var, app_path_var,
                                icon_path_var)]_vars

\* C16, witness: another program rewrote the row of a loaded document,
\* save_changes then persisted the document (its reload raised), and the
\* row holds the serialization of the document in memory.
C16_ExternalWriteOverwritten ==
    /\ last.op = "save_changes"
    /\ last.persist = "ok"
    /\ last.load # "ok"
    /\ <<db_path, last.row>> \in external
    /\ HasRow(dbs[db_path], last.row)
    /\ RowAt(dbs[db_path], last.row).blob = BlobOf(MemoryDoc(docs, last.row))

\* browse_icon ran to its end on the selected profile
IconMaterialized == last'.op = "browse_icon" /\ last'.msg = "none"

\* the posterPath of the selected profile before and after the step
PosterPathBefore ==
    FieldOf(ProfOf(docs, profiles[selected_profile_index]), "posterPath")
PosterPathAfter ==
    FieldOf(ProfOf(docs', profiles'[selected_profile_index']), "posterPath")

\* the file in the icon cache folder named after the selected profile
CacheTarget ==
    LET name == FieldOf(ProfOf(docs, profiles[selected_profile_index]),
                        "name")
    IN  PathJoin(icon_cache_folder,
                 SafeName(OrElse(Strip(name), AppUnknown)) \o BmpExt)

\* C17: browse_icon derives its target from the record's posterPath
\* stripped of surrounding white space: when that is non-empty the target
\* is the stripped path with its extension replaced by .bmp, whatever the
\* icon cache folder; when it is empty (posterPath absent, empty or white
\* space only) the target is the icon cache folder joined with the
\* sanitized name plus .bmp. On success posterPath, and the form's icon
\* path, equal the target.
C17_TargetFromStrippedPath ==
    [][IconMaterialized =>
         LET target == IF Strip(PosterPathBefore) # << >>
                       THEN SplitExtBase(Strip(PosterPathBefore)) \o BmpExt
                       ELSE CacheTarget
         IN  /\ PosterPathAfter = target
             /\ icon_path_var' = target
             /\ target \in files']_vars

\* C17, witness: browse_icon on the record whose posterPath was a blank
\* left the bitmap of the sanitized name in the icon cache folder.
C17_BlankPathWentToCache ==
    /\ last.op = "browse_icon"
    /\ last.msg = "none"
    /\ LET prof == ProfOf(docs, profiles[selected_profile_index])
       IN  /\ FieldOf(prof, "name") = <<"c", " ", "d", "?">>
           /\ FieldOf(prof, "posterPath")
                  = PathJoin(icon_cache_folder,
                             <<"c", "_", "d">> \o BmpExt)

\* C17 as stated: a posterPath that is not the empty string has its
\* extension replaced; only the empty string sends the bitmap to the icon
\* cache folder.
C17_TargetFromPathAsWritten ==
    [][IconMaterialized =>
         PosterPathAfter = IF PosterPathBefore # << >>
                           THEN SplitExtBase(PosterPathBefore) \o BmpExt
                           ELSE CacheTarget]_vars

\* C18: browse_icon run twice in succession on the same selected profile
\* leaves after the second run the posterPath the first run left, whether
\* the profile had an icon before the first run or not.
C18_SecondRunSamePath ==
    [][(last.op = "browse_icon" /\ last.msg = "none" /\ IconMaterialized)
         => PosterPathAfter = PosterPathBefore]_vars

\* the dialogs of browse_icon's two failures (lines 482, 503)
IconFailures == {"Could not open image file", "Could not save BMP"}

\* C19: when browse_icon fails, at Image.open or at img.save, every record
\* in memory, the selected one included, has the posterPath and the other
\* fields it had before; the form and the rows are unchanged too.
C19_FailedIconLeavesRecord ==
    [][(last'.op = "browse_icon" /\ last'.msg \in IconFailures) =>
         /\ docs' = docs
         /\ profiles' = profiles
         /\ icon_path_var' = icon_path_var
         /\ dbs' = dbs]_vars

\* C19, witness: writing the bitmap failed for a selected profile that has
\* an icon, and the profile still has the path of that icon.
C19_SaveBmpFailed ==
    /\ last.op = "browse_icon"
    /\ last.msg = "Could not save BMP"
    /\ FieldOf(ProfOf(docs, profiles[selected_profile_index]), "posterPath")
           = IconPng

\* the posterPath of the record at position i of document d
IconAt(ds, d, i) == FieldOf(AppsListOf(ds[d].entire_json)[i], "posterPath")

\* the step kept the documents in memory it had (no load replaced them)
\* and moved no record to another position
RecordsStay == last'.load # "ok" /\ last'.op # "delete_entry"

\* the step ran save_changes to its save on an entry whose record is in
\* its document's list
SavedSelected ==
    /\ last'.op = "save_changes"
    /\ last'.row # 0
    /\ profiles[selected_profile_index].i # 0

\* C20: the posterPath of a record in memory changes only through
\* browse_icon (to the non-empty target), clear_icon (from non-empty to
\* empty) and save_changes (to whatever the form's icon path field holds,
\* which the user can type), each on the selected profile only; selecting,
\* typing, add_entry, a failed handler and a write by another program
\* leave it. save_changes always writes the form's icon path into the
\* record, in memory and in the row it persists.
C20_IconMovedByBrowseClearSave ==
    [][/\ RecordsStay =>
            \A d \in DOMAIN docs :
              \A i \in DOMAIN AppsListOf(docs[d].entire_json) :
                IconAt(docs', d, i) # IconAt(docs, d, i) =>
                  /\ profiles[selected_profile_index].d = d
                  /\ profiles[selected_profile_index].i = i
                  /\ \/ /\ last'.op = "browse_icon"
                        /\ IconAt(docs', d, i) # EmptyStr
                     \/ /\ last'.op = "clear_icon"
                        /\ IconAt(docs', d, i) = EmptyStr
                     \/ /\ last'.op = "save_changes"
                        /\ IconAt(docs', d, i) = icon_path_var
       /\ SavedSelected =>
            LET item == profiles[selected_profile_index]
            IN  /\ last'.load # "ok" =>
                      IconAt(docs', item.d, item.i) = icon_path_var
                /\ (last'.persist = "ok"
                       /\ HasRow(dbs[db_path], item.db_row_id)) =>
                      FieldOf(AppsListOf(StoredDoc(dbs'[db_path],
                                  item.db_row_id))[item.i], "posterPath")
                          = icon_path_var]_vars

\* C20, witness: save_changes persisted a record whose icon path the user
\* had typed, and the row holds the typed path.
C20_TypedIconSaved ==
    /\ last.op = "save_changes"
    /\ last.persist = "ok"
    /\ icon_path_var = IconTyped
    /\ HasRow(dbs[db_path], last.row)
    /\ LET list == AppsListOf(StoredDoc(dbs[db_path], last.row))
       IN  \E i \in DOMAIN list : FieldOf(list[i], "posterPath") = IconTyped

\* C20 as stated: only browse_icon and clear_icon change the posterPath of
\* a record; save_changes leaves it as it was, in memory and in the row.
C20_OnlyBrowseAndClearMoveIcon ==
    [][/\ (RecordsStay /\ last'.op \notin {"browse_icon", "clear_icon"}) =>
            \A d \in DOMAIN docs :
              \A i \in DOMAIN AppsListOf(docs[d].entire_json) :
                IconAt(docs', d, i) = IconAt(docs, d, i)
       /\ SavedSelected =>
            LET item == profiles[selected_profile_index]
            IN  (last'.persist = "ok"
                   /\ HasRow(dbs[db_path], item.db_row_id)) =>
                  FieldOf(AppsListOf(StoredDoc(dbs'[db_path],
                              item.db_row_id))[item.i], "posterPath")
                      = IconAt(docs, item.d, item.i)]_vars

\* new is old except, at most, for record i of the list: every other
\* record and every other key of the document and of its applications
\* section is there with its value
OtherRecordsKept(old, new, i) ==
    /\ IsDict(new)
    /\ DOMAIN new.v = DOMAIN old.v
    /\ \A k \in DOMAIN old.v \ {"applications"} : new.v[k] = old.v[k]
    /\ IsDict(new.v["applications"])
    /\ DOMAIN new.v["applications"].v = DOMAIN old.v["applications"].v
    /\ \A k \in DOMAIN old.v["applications"].v \ {"applications"} :
          new.v["applications"].v[k] = old.v["applications"].v[k]
    /\ Len(AppsListOf(new)) = Len(AppsListOf(old))
    /\ \A j \in (1..Len(AppsListOf(old))) \ {i} :
          AppsListOf(new)[j] = AppsListOf(old)[j]

\* clear_icon ran to its end on the selected profile
IconCleared == last'.op = "clear_icon" /\ last'.msg = "none"

\* C21: clear_icon sets the posterPath of the selected profile's record to
\* the empty string; every other key of that record, every other record of
\* every document and every other key of the documents keep their values,
\* and the bitmap files written before are all still there.
C21_ClearSetsEmptyPathOnly ==
    [][(IconCleared /\ profiles[selected_profile_index].i # 0) =>
         LET item == profiles[selected_profile_index]
         IN  /\ DOMAIN docs' = DOMAIN docs
             /\ \A d \in DOMAIN docs :
                   IF d # item.d THEN docs'[d] = docs[d]
                   ELSE LET old == AppsListOf(docs[d].entire_json)
                            new == AppsListOf(docs'[d].entire_json)
                        IN  /\ docs'[d].db_row_id = docs[d].db_row_id
                            /\ OtherRecordsKept(docs[d].entire_json,
                                                docs'[d].entire_json, item.i)
                            /\ DOMAIN new[item.i].v
                                   = DOMAIN old[item.i].v \cup {"posterPath"}
                            /\ \A k \in DOMAIN old[item.i].v \ {"posterPath"} :
                                   new[item.i].v[k] = old[item.i].v[k]
                            /\ new[item.i].v["posterPath"] = JStr(EmptyStr)
             /\ profiles' = profiles
             /\ files' = files
             /\ dbs' = dbs]_vars

\* C21, witness: the icon that browse_icon had written for a record with
\* another field was cleared; the record has no posterPath and the bitmap
\* is still among the files.
C21_ClearedIconFileKept ==
    /\ last.op = "clear_icon"
    /\ last.msg = "none"
    /\ files # {}
    /\ LET prof == ProfOf(docs, profiles[selected_profile_index])
       IN  /\ FieldOf(prof, "posterPath") = EmptyStr
           /\ FieldOf(prof, "applicationPath") = PathP

\* the one placeholder: what lines 488-489 make of the empty name
ThePlaceholder == AppUnknown

\* the file name of the statement, with the one placeholder
SanitizedAsStated(name) ==
    LET kept == SelectSeq(name,
                          LAMBDA c : IsWordChar(c) \/ IsSpace(c) \/ c = "-")
        made == Underscored(Strip(kept))
    IN  IF made = << >> THEN ThePlaceholder ELSE made

C23_NativeOrderKept ==
    /\ [](last.load = "ok" =>
            \A d \in DOMAIN docs :
                /\ HasRow(dbs[db_path], docs[d].db_row_id)
                /\ AppsListOf(docs[d].entire_json)
                       = AppsListOf(StoredDoc(dbs[db_path],
                                              docs[d].db_row_id)))
    /\ [][(SavedSelected /\ last'.persist = "ok"
             /\ HasRow(dbs[db_path], last'.row)) =>
            LET item == profiles[selected_profile_index]
                old == AppsListOf(docs[item.d].entire_json)
                new == AppsListOf(StoredDoc(dbs'[db_path], last'.row))
            IN  /\ Len(new) = Len(old)
                /\ \A j \in (1..Len(old)) \ {item.i} : new[j] = old[j]
                /\ DictGet(new[item.i], "name", JNone)
                       = JStr(name_entry_var)]_vars

\* C23, witness: save_changes persisted and reloaded a document whose
\* list has a record before one that the profile list shows first.
C23_SavedListNotInDisplayOrder ==
    /\ last.op = "save_changes"
    /\ last.persist = "ok"
    /\ last.load = "ok"
    /\ HasRow(dbs[db_path], last.row)
    /\ LET list == AppsListOf(StoredDoc(dbs[db_path], last.row))
       IN  \E j \in 1..Len(list) : \E k \in (j + 1)..Len(list) :
               StrLess(Lower(FieldOf(list[k], "name")),
                       Lower(FieldOf(list[j], "name")))

\* C24: every load and every save has closed the connection it opened when
\* it returns or raises; between two handlers no connection is open.
C24_NoConnectionLeftOpen == unclosed = 0

\* C25: after a save_changes that persisted and reloaded, with no write by
\* another program in between, the selected entry is the entry of the
\* record that was edited (same row, same position in the document's
\* list), also when another record has the same name.
C25_SelectionStaysOnEditedRecord ==
    [][(SavedSelected /\ last'.persist = "ok" /\ last'.load = "ok"
          /\ HasRow(dbs[db_path], last'.row) /\ external = {}) =>
         LET item == profiles[selected_profile_index]
         IN  /\ selected_profile_index' \in 1..Len(profiles')
             /\ profiles'[selected_profile_index'].db_row_id = item.db_row_id
             /\ profiles'[selected_profile_index'].i = item.i]_vars

\* every document in memory is what its row holds now, and every row whose
\* payload is a JSON object has its document
MemoryIsStore ==
    /\ \A d \in DOMAIN docs :
          /\ HasRow(dbs[db_path], docs[d].db_row_id)
          /\ RowParses(RowAt(dbs[db_path], docs[d].db_row_id))
          /\ docs[d].entire_json = StoredDoc(dbs[db_path], docs[d].db_row_id)
    /\ \A n \in 1..Len(dbs[db_path]) :
          RowParses(dbs[db_path][n]) => HasDoc(docs, dbs[db_path][n].id)
    /\ \A j \in 1..Len(profiles) : profiles[j].i # 0

\* C26: when add_entry, delete_entry or save_changes has gone through its
\* save and its reload (it did not return early: nothing loaded, nothing
\* selected, the delete not confirmed; and it did not raise), the entries
\* were rebuilt from the table: every document in memory equals the parsed
\* payload its row holds now, so a change made in memory only is gone.
C26_ReloadedAfterHandler ==
    (last.op \in Handlers /\ last.row # 0 /\ last.load = "ok")
        => MemoryIsStore

\* C26, witness: an icon was set in memory on a profile of one row, then
\* add_entry saved another row and reloaded; no record has the new path.
C26_UnsavedIconGone ==
    /\ last.op = "add_entry"
    /\ last.persist = "ok"
    /\ last.load = "ok"
    /\ files # {}
    /\ Len(docs) >= 2
    /\ \A d \in DOMAIN docs :
          \A i \in DOMAIN AppsListOf(docs[d].entire_json) :
              IconAt(docs, d, i) \notin files

\* C26 as stated: whenever one of the three handlers has returned without
\* raising, early returns included, memory equals the store.
C26_ReloadedWheneverReturned ==
    (last.op \in Handlers /\ last.load \in {"ok", "none"}
        /\ last.msg # "IndexError") => MemoryIsStore

\* C27: the bitmap browse_icon writes for the selected profile is at a
\* path that no other profile's posterPath refers to, also when the names
\* of two profiles without icon give the same file name.
C27_TargetOfNoOtherProfile ==
    [][IconMaterialized =>
         \A j \in (1..Len(profiles)) \ {selected_profile_index} :
             FieldOf(ProfOf(docs, profiles[j]), "posterPath")
                 # PosterPathAfter]_vars

\* C28: between two user events selected_profile_index is None or an index
\* of self.profiles, after any sequence of selections, add_entry,
\* delete_entry, save_changes, browse_icon, clear_icon and change_db_path,
\* failed saves included, with no other program writing the tables.
C28_SelectedIndexInRange ==
    selected_profile_index \in 0..Len(profiles)

\* the _id values of a table, in row order
IdsOf(rows) == [n \in DOMAIN rows |-> rows[n].id]

\* C29: no handler of the editor inserts or deletes a row: each table has
\* the same _id values after every step; and a save for a row id that the
\* table does not have leaves every table as it is.
C29_RowsNeitherInsertedNorDeleted ==
    [][/\ \A p \in DbPaths : IdsOf(dbs'[p]) = IdsOf(dbs[p])
       /\ (last'.op \in Handlers /\ last'.row # 0
             /\ ~HasRow(dbs[db_path], last'.row)) => dbs' = dbs]_vars

\* C29, witness: a handler's save succeeded for a row id that the table
\* the editor is on does not have.
C29_SavedToMissingRow ==
    /\ last.op \in Handlers
    /\ last.row # 0
    /\ last.persist = "ok"
    /\ ~HasRow(dbs[db_path], last.row)

\* C30: GHUB_A4.py and LGHUB_Profile_Editor_V2.py leave the same rows for
\* add_entry, delete_entry and save_changes: when the editor, its memory
\* being what a load of the table gives, runs one of the three handlers as
\* far as its save, and the save succeeds, the tables are afterwards what
\* the same handler of GHUB_A4.py leaves from the same state.
C30_A4LeavesSameRows ==
    [][(/\ MemoryIsStore
        /\ last'.op \in Handlers
        /\ last'.row # 0
        /\ last'.persist = "ok")
          => dbs' = a4_handler(Cur, last'.op, TRUE).dbs]_vars

=============================================================================
